---------------------------- MODULE Spec2Model ----------------------------
(***************************************************************************)
(* A model of scalardb: the paged table file (Pager, Page row codec,       *)
(* Table) of src/table.rs, the statement front end of src/statement.rs     *)
(* and the B+tree leaf page of src/tree.rs.                                *)
(*                                                                         *)
(* Bytes are integers 0..255.  A page is a sequence of PAGE_SIZE bytes;    *)
(* the code's 0-based byte offset o is position o+1 of the sequence.       *)
(* The file is kept page by page: every seek, read and write of the code   *)
(* is at offset 0 (the header region) or at HEADER_SPACE + index*4096.     *)
(* An i64 is kept as four 16-bit limbs, least significant first, because   *)
(* TLC's integers are 32 bits wide; to_ne_bytes / from_ne_bytes are the    *)
(* little-endian conversions of a x86-64 / aarch64 build.                  *)
(***************************************************************************)
EXTENDS Integers, Sequences, FiniteSets, TLC

VARIABLES
    file,     \* the table file on disk: [hdr, pages]
    table,    \* the in-memory Table: [header, pages (the Pager)]
    pc,       \* "open": a Table is constructed; "panicked": the process aborted
    last,     \* the last call made and what it returned
    hist,     \* the rows stored by the successful inserts, in order
    faults,   \* how many file operations have failed so far
    restarted,\* whether Table::new has run again over the file
    cpage,    \* row codec: the Page under test
    cschema,  \* row codec: the Schema under test
    cio,      \* row codec: the last write_row / read_row call and its result
    leaf,     \* leaf page: the LeafNode's bytes
    lnew,     \* leaf page: the LeafNode returned by the last split, if any
    lkeys,    \* leaf page: the <<key, values>> inserted so far, in call order
    llast,    \* leaf page: the last call made on the leaf and what it returned
    pgr,      \* pager test: the Pager [pages, cache]
    pfile,    \* pager test: the file the Pager is over
    plast,    \* pager test: the last Pager call and what it returned
    pview,    \* pager test: per index, the page as last seen through a reference
    pflushed, \* pager test: per index, the bytes flush_page wrote last
    popen,    \* pager test: how the current Pager was created
    inode,    \* internal page: the InternalNode's bytes
    imade,    \* internal page: the child pointers the node was laid out with
    ilast     \* internal page: the last lookup made and what it returned

vars ==
    <<file, table, pc, last, hist, faults, restarted, cpage, cschema, cio, leaf, lnew,
      lkeys, llast, pgr, pfile, plast, pview, pflushed, popen, inode, imade,
      ilast>>

tableVars == <<file, table, pc, last, hist, faults, restarted>>
codecVars == <<cpage, cschema, cio>>
leafVars  == <<leaf, lnew, lkeys, llast>>
pagerVars == <<pgr, pfile, plast, pview, pflushed, popen>>
internalVars == <<inode, imade, ilast>>

-----------------------------------------------------------------------------
(* Sizes.  PAGE_SIZE and TABLE_MAX_PAGE are 4096 and 100 in src/main.rs    *)
(* (and the literal 4096 in src/table.rs); the model scales them down.     *)

PAGE_SIZE == 36

TABLE_MAX_PAGE == 3

HEADER_SPACE == 4096

-----------------------------------------------------------------------------
(* Option<T>, and small helpers.                                           *)

None == <<>>

Some(x) == <<x>>

IsSome(o) == Len(o) = 1

Unwrap(o) == o[1]

Min(a, b) == IF a <= b THEN a ELSE b

Zeros(n) == [i \in 1..n |-> 0]

\* dst[off .. off+len(data)) := data   (offsets 0-based, as in the code)
WriteAt(dst, off, data) ==
    [i \in 1..Len(dst) |->
        IF i > off /\ i <= off + Len(data) THEN data[i - off] ELSE dst[i]]

\* &src[from .. to]   (0-based, `to` exclusive)
Slice(src, from, to) == SubSeq(src, from + 1, to)

-----------------------------------------------------------------------------
(* datatype.rs: DataType, ScalarValue, Schema.                             *)

DString(size) == [ty |-> "String", size |-> size]

DNumber == [ty |-> "Number"]

\* an i64 as four 16-bit limbs (two's complement), least significant first
I64(n) ==
    LET ext == IF n < 0 THEN 65535 ELSE 0
    IN  <<n % 65536, (n \div 65536) % 65536, ext, ext>>

VString(bytes) == [ty |-> "String", v |-> bytes]

VNumber(n) == [ty |-> "Number", v |-> I64(n)]

to_ne_bytes(limbs) ==
    [k \in 1..8 |->
        IF k % 2 = 1 THEN limbs[(k + 1) \div 2] % 256
                     ELSE limbs[k \div 2] \div 256]

from_ne_bytes(bytes) ==
    [j \in 1..4 |-> bytes[2 * j - 1] + 256 * bytes[2 * j]]

\* String::from_utf8(..).unwrap() succeeds: the bytes the model stores are
\* ASCII, and every other byte starts no sequence the model writes whole.
Utf8Ok(bytes) == \A i \in 1..Len(bytes) : bytes[i] < 128

RECURSIVE SumSizes(_, _)
SumSizes(feilds, f) ==
    IF f > Len(feilds) THEN 0
    ELSE (IF feilds[f][2].ty = "String" THEN feilds[f][2].size ELSE 8)
         + SumSizes(feilds, f + 1)

row_size(schema) == SumSizes(schema.feilds, 1)

-----------------------------------------------------------------------------
(* table.rs: Page.                                                         *)

PageNew == Zeros(PAGE_SIZE)

\* The body of write_row's loop, from field f on, with the cursor at
\* page_offset.  [panic, bytes]: panic is an unwrap / panic!() / slice index
\* out of range of the code.
RECURSIVE WriteFields(_, _, _, _, _)
WriteFields(bytes, feilds, values, f, page_offset) ==
    IF f > Len(feilds) THEN [panic |-> FALSE, bytes |-> bytes]
    ELSE
    LET ty == feilds[f][2] IN
    IF f > Len(values) \/ values[Min(f, Len(values))].ty # ty.ty
    THEN [panic |-> TRUE, bytes |-> bytes]
    ELSE IF ty.ty = "String" THEN
        LET size  == ty.size
            value == values[f].v
            n     == Min(Len(value), size - 1)   \* <&mut [u8] as Write>::write
            b1    == WriteAt(bytes, page_offset, <<Len(value) % 256>>)
            b2    == WriteAt(b1, page_offset + 1, SubSeq(value, 1, n))
        IN  IF size = 0 \/ page_offset + size > Len(bytes)
            THEN [panic |-> TRUE, bytes |-> bytes]
            ELSE WriteFields(b2, feilds, values, f + 1, page_offset + size)
    ELSE
        LET data == to_ne_bytes(values[f].v)
            n    == Min(8, Len(bytes) - page_offset)
        IN  IF page_offset > Len(bytes)
            THEN [panic |-> TRUE, bytes |-> bytes]
            ELSE WriteFields(WriteAt(bytes, page_offset, SubSeq(data, 1, n)),
                             feilds, values, f + 1, page_offset + 8)

write_row(bytes, index, schema, values) ==
    WriteFields(bytes, schema.feilds, values, 1, index * row_size(schema))

\* The body of read_row's loop.  [panic, values].
RECURSIVE ReadFields(_, _, _, _, _)
ReadFields(bytes, feilds, f, offset, values) ==
    IF f > Len(feilds) THEN [panic |-> FALSE, values |-> values]
    ELSE
    LET ty == feilds[f][2] IN
    IF ty.ty = "String" THEN
        IF offset >= Len(bytes) THEN [panic |-> TRUE, values |-> values]
        ELSE
        LET len == bytes[offset + 1] IN
        IF len # 0 THEN
            IF offset + len + 1 > Len(bytes)
               \/ ~Utf8Ok(Slice(bytes, offset + 1, offset + len + 1))
            THEN [panic |-> TRUE, values |-> values]
            ELSE ReadFields(bytes, feilds, f + 1, offset + ty.size,
                     Append(values,
                            VString(Slice(bytes, offset + 1, offset + len + 1))))
        ELSE ReadFields(bytes, feilds, f + 1, offset,
                        Append(values, VString(<<>>)))
    ELSE
        IF offset + 8 > Len(bytes) THEN [panic |-> TRUE, values |-> values]
        ELSE ReadFields(bytes, feilds, f + 1, offset + 8,
                 Append(values,
                        [ty |-> "Number",
                         v  |-> from_ne_bytes(Slice(bytes, offset, offset + 8))]))

read_row(bytes, index, schema) ==
    ReadFields(bytes, schema.feilds, 1, index * row_size(schema), <<>>)

-----------------------------------------------------------------------------
(* The file.  hdr is None for a file of length 0, else the TableHeader the *)
(* header region [0, HEADER_SPACE) deserializes to; pages[i+1] is the      *)
(* 4096-byte block at HEADER_SPACE + i*4096.                               *)

\* what bincode::deserialize reads from an all-zero header region
ZeroHeader == [name |-> "", schema |-> [feilds |-> <<>>], num_rows |-> 0]

EmptyFile == [hdr |-> None, pages |-> <<>>]

FileLen(f) ==
    IF f.hdr = None THEN 0 ELSE HEADER_SPACE + PAGE_SIZE * Len(f.pages)

\* File::set_len(len): truncates, or extends with zeros
SetLen(f, len) ==
    LET n == (len - HEADER_SPACE) \div PAGE_SIZE
    IN  [hdr   |-> IF f.hdr = None THEN Some(ZeroHeader) ELSE f.hdr,
         pages |-> [i \in 1..n |->
                       IF i <= Len(f.pages) THEN f.pages[i] ELSE PageNew]]

\* a write that lands one page further than asked
WritePage_NextOffset(f, index, bytes) ==
    [hdr   |-> IF f.hdr = None THEN Some(ZeroHeader) ELSE f.hdr,
     pages |-> [i \in 1..(IF index + 2 > Len(f.pages) THEN index + 2
                                                      ELSE Len(f.pages)) |->
                   IF i = index + 2 THEN bytes
                   ELSE IF i <= Len(f.pages) THEN f.pages[i] ELSE PageNew]]

\* seek(HEADER_SPACE + index*4096); write_all(bytes): a write past the end
\* of the file leaves a hole of zeros
WritePage(f, index, bytes) ==
    [hdr   |-> IF f.hdr = None THEN Some(ZeroHeader) ELSE f.hdr,
     pages |-> [i \in 1..(IF index + 1 > Len(f.pages) THEN index + 1
                                                      ELSE Len(f.pages)) |->
                   IF i = index + 1 THEN bytes
                   ELSE IF i <= Len(f.pages) THEN f.pages[i] ELSE PageNew]]

\* seek(0); write_all(the serialized header, padded to HEADER_SPACE)
WriteHeader(f, header) == [f EXCEPT !.hdr = Some(header)]

-----------------------------------------------------------------------------
(* table.rs: Pager.  Every file operation of a call may fail; `io` names   *)
(* the one that does in this call ("none": none does).  A seek that is     *)
(* followed by a write fails like the write: nothing is written.           *)

IOPoints ==
    {"none", "set_len", "seek_page", "read_exact", "write_page",
     "write_header"}

Pager_new(pages) ==
    [pages |-> pages, cache |-> [i \in 0..(TABLE_MAX_PAGE - 1) |-> None]]

\* [res, pager, file]; on "Ok" the page returned is pager.cache[index]
Pager_page(pager, f, index, io) ==
    IF index >= pager.pages THEN
        IF io = "set_len" THEN [res |-> "IOError", pager |-> pager, file |-> f]
        ELSE
        LET f1 == SetLen(f, (pager.pages + 1) * PAGE_SIZE + HEADER_SPACE)
            p1 == [pager EXCEPT !.pages = @ + 1]
        IN  IF io = "seek_page"
            THEN [res |-> "IOError", pager |-> pager, file |-> f1]
            ELSE IF index >= TABLE_MAX_PAGE      \* self.cache[index] = ...
            THEN [res |-> "panic", pager |-> p1, file |-> f1]
            ELSE [res   |-> "Ok",
                  pager |-> [p1 EXCEPT !.cache[index] = Some(PageNew)],
                  file  |-> f1]
    ELSE IF index >= TABLE_MAX_PAGE              \* match self.cache[index]
    THEN [res |-> "panic", pager |-> pager, file |-> f]
    ELSE IF IsSome(pager.cache[index])
    THEN [res |-> "Ok", pager |-> pager, file |-> f]
    ELSE IF io = "seek_page" \/ io = "read_exact" \/ index + 1 > Len(f.pages)
    THEN [res |-> "IOError", pager |-> pager, file |-> f]
    ELSE [res   |-> "Ok",
          pager |-> [pager EXCEPT !.cache[index] = Some(f.pages[index + 1])],
          file  |-> f]

\* [res, file]
Pager_flush_page(pager, f, index, io) ==
    IF index >= TABLE_MAX_PAGE THEN [res |-> "panic", file |-> f]
    ELSE IF IsSome(pager.cache[index]) THEN
        IF io = "write_page"
        THEN [res |-> "IOError", file |-> f]
        ELSE [res  |-> "Ok",
              file |-> WritePage(f, index, Unwrap(pager.cache[index]))]
    ELSE [res |-> "Ok", file |-> f]

-----------------------------------------------------------------------------
(* table.rs: Table.                                                        *)

rows_per_page(t) == PAGE_SIZE \div row_size(t.header.schema)

max_rows(t) == rows_per_page(t) * TABLE_MAX_PAGE

div_ceil(a, b) == (a + b - 1) \div b

\* [res, file]
flush_table_header(t, f, io) ==
    IF io = "write_header"
    THEN [res |-> "IOError", file |-> f]
    ELSE [res |-> "Ok", file |-> WriteHeader(f, t.header)]

\* a Table::new that believes its arguments rather than the file
Table_new_FromArguments(name, schema, f) ==
    LET f1 == IF FileLen(f) = 0
              THEN WriteHeader(f, [name |-> name, schema |-> schema,
                                   num_rows |-> 0])
              ELSE f
        header == [name |-> name, schema |-> schema,
                   num_rows |-> Unwrap(f1.hdr).num_rows]
        pages  == div_ceil(header.num_rows,
                           PAGE_SIZE \div row_size(header.schema))
    IN  [table |-> [header |-> header, pages |-> Pager_new(pages)],
         file  |-> f1]

\* Table::new(name, schema, path) where the file at path is f.  [table, file]
Table_new(name, schema, f) ==
    LET f1 == IF FileLen(f) = 0
              THEN WriteHeader(f, [name |-> name, schema |-> schema,
                                   num_rows |-> 0])
              ELSE f
        header == Unwrap(f1.hdr)
        pages  == div_ceil(header.num_rows,
                           PAGE_SIZE \div row_size(header.schema))
    IN  [table |-> [header |-> header, pages |-> Pager_new(pages)],
         file  |-> f1]

\* an insert that writes every row into the first slot of its page
InsertRowIndex_FirstSlot(t) == 0

\* where insert puts the row it is given: the page it asks the Pager for
\* and the in-page row index it writes
InsertPageIndex(t) == (t.header.num_rows + 1) \div rows_per_page(t)

InsertRowIndex(t) == t.header.num_rows % rows_per_page(t)

\* Table::insert below the row limit.  [res, table, file]
InsertRow(t, f, values, io) ==
    LET page_index == InsertPageIndex(t)
        r1 == Pager_page(t.pages, f, page_index, io)
        t1 == [t EXCEPT !.pages = r1.pager]
    IN  IF r1.res # "Ok"
        THEN [res |-> r1.res, table |-> t1, file |-> r1.file]
        ELSE
        LET w  == write_row(Unwrap(t1.pages.cache[page_index]),
                            InsertRowIndex(t), t.header.schema, values)
            t2 == [t1 EXCEPT !.pages.cache[page_index] = Some(w.bytes)]
            r2 == Pager_flush_page(t2.pages, r1.file, page_index, io)
            t3 == [t2 EXCEPT !.header.num_rows = @ + 1]
            r3 == flush_table_header(t3, r2.file, io)
        IN  IF w.panic
            THEN [res |-> "panic", table |-> t2, file |-> r1.file]
            ELSE IF r2.res # "Ok"
            THEN [res |-> r2.res, table |-> t2, file |-> r2.file]
            ELSE IF r3.res # "Ok"
            THEN [res |-> r3.res, table |-> t3, file |-> r2.file]
            \* self.pages.file.flush(): File::flush does nothing and is Ok
            ELSE [res |-> "Ok", table |-> t3, file |-> r3.file]

\* an insert that lets one row more in before it reports RowLimit
Table_insert_LimitExclusive(t, f, values, io) ==
    IF t.header.num_rows > max_rows(t)
    THEN [res |-> "RowLimit", table |-> t, file |-> f]
    ELSE InsertRow(t, f, values, io)

\* Table::insert.  [res, table, file]
Table_insert(t, f, values, io) ==
    IF t.header.num_rows >= max_rows(t)
    THEN [res |-> "RowLimit", table |-> t, file |-> f]
    ELSE InsertRow(t, f, values, io)

ReadPageIndex(t) == (t.header.num_rows + 1) \div rows_per_page(t)

\* Table::read.  [res, table, file, out]: out is the row printed
Table_read(t, f, index, io) ==
    LET page_index == ReadPageIndex(t)
        idx == index % rows_per_page(t)
        r1  == Pager_page(t.pages, f, page_index, io)
        t1  == [t EXCEPT !.pages = r1.pager]
    IN  IF r1.res # "Ok"
        THEN [res |-> r1.res, table |-> t1, file |-> r1.file, out |-> <<>>]
        ELSE
        LET r == read_row(Unwrap(t1.pages.cache[page_index]), idx,
                          t.header.schema)
        IN  [res   |-> IF r.panic THEN "panic" ELSE "Ok",
             table |-> t1, file |-> r1.file, out |-> r.values]

-----------------------------------------------------------------------------
(* statement.rs: the checks of Statement::insert_statement on the values   *)
(* value_tokens parsed.                                                    *)

insert_statement_ok(values, schema) ==
    /\ Len(schema.feilds) = Len(values)
    /\ \A i \in 1..Len(values) : schema.feilds[i][2].ty = values[i].ty

-----------------------------------------------------------------------------
(* statement.rs and commands.rs on the text of a line.  A &str is the      *)
(* sequence of its characters (all of them ASCII here).                    *)

Digits == {"0", "1", "2", "3", "4", "5", "6", "7", "8", "9"}

DigitValue(c) ==
    CASE c = "0" -> 0 [] c = "1" -> 1 [] c = "2" -> 2 [] c = "3" -> 3
      [] c = "4" -> 4 [] c = "5" -> 5 [] c = "6" -> 6 [] c = "7" -> 7
      [] c = "8" -> 8 [] c = "9" -> 9

\* str::parse of a run of digits (a run short enough not to overflow)
RECURSIVE DecimalValue(_)
DecimalValue(s) ==
    IF s = <<>> THEN 0
    ELSE 10 * DecimalValue(SubSeq(s, 1, Len(s) - 1)) + DigitValue(s[Len(s)])

\* String::as_bytes, on the letters the lines of the model use
CharByte(c) ==
    CASE c = " " -> 32 [] c = "\"" -> 34 [] c = "," -> 44 [] c = "\\" -> 92
      [] c = "h" -> 104 [] c = "i" -> 105 [] c = "x" -> 120
      [] OTHER -> 63

as_bytes(s) == [i \in 1..Len(s) |-> CharByte(s[i])]

\* the position of the first c in s from position i on, 0 if there is none
RECURSIVE IndexOf(_, _, _)
IndexOf(s, c, i) ==
    IF i > Len(s) THEN 0
    ELSE IF s[i] = c THEN i ELSE IndexOf(s, c, i + 1)

\* str::split_once(' ')
split_once(s) ==
    LET i == IndexOf(s, " ", 1)
    IN  IF i = 0 THEN None
        ELSE Some(<<SubSeq(s, 1, i - 1), SubSeq(s, i + 1, Len(s))>>)

\* str::trim, for the one white-space character of the model
RECURSIVE TrimStart(_)
TrimStart(s) ==
    IF s # <<>> /\ s[1] = " " THEN TrimStart(Tail(s)) ELSE s

RECURSIVE TrimEnd(_)
TrimEnd(s) ==
    IF s # <<>> /\ s[Len(s)] = " " THEN TrimEnd(SubSeq(s, 1, Len(s) - 1)) ELSE s

trim(s) == TrimEnd(TrimStart(s))

\* str::replace(from, to) for a pattern `from` of two characters
RECURSIVE replace(_, _, _)
replace(s, from, to) ==
    IF Len(s) < 2 THEN s
    ELSE IF SubSeq(s, 1, 2) = from
    THEN to \o replace(SubSeq(s, 3, Len(s)), from, to)
    ELSE <<s[1]>> \o replace(Tail(s), from, to)

\* how many digits s starts with
RECURSIVE DigitRun(_)
DigitRun(s) ==
    IF s # <<>> /\ s[1] \in Digits THEN 1 + DigitRun(Tail(s)) ELSE 0

\* value_tokens::number: Option<(i64, &str)>
number(s) ==
    LET n == DigitRun(s)
    IN  IF n = 0 THEN None
        ELSE Some(<<DecimalValue(SubSeq(s, 1, n)), SubSeq(s, n + 1, Len(s))>>)

\* the loop of value_tokens::string from position i: the position of the
\* closing quote, 0 if the text ends first
RECURSIVE ClosingQuote(_, _)
ClosingQuote(s, i) ==
    IF i > Len(s) THEN 0
    ELSE IF s[i] = "\\" THEN ClosingQuote(s, i + 2)
    ELSE IF s[i] = "\"" THEN i
    ELSE ClosingQuote(s, i + 1)

\* value_tokens::string: Option<(String, &str)>, for a non-empty s
string(s) ==
    IF Len(s) < 2 /\ s[1] # "\"" THEN None
    ELSE
    LET index == ClosingQuote(s, 2)
        token == SubSeq(s, 2, index - 1)
    IN  IF index = 0 THEN None
        ELSE Some(<<replace(replace(token, <<"\\", "\\">>, <<"\\">>),
                            <<"\\", "\"">>, <<"\"">>),
                    SubSeq(s, index + 1, Len(s))>>)

\* the loop of value_tokens.  [res, values]
RECURSIVE ValueTokens(_, _)
ValueTokens(s, res) ==
    IF s = <<>> THEN [res |-> "Ok", values |-> res]
    ELSE IF IsSome(number(s))
    THEN ValueTokens(trim(Unwrap(number(s))[2]),
                     Append(res, VNumber(Unwrap(number(s))[1])))
    ELSE IF IsSome(string(s))
    THEN ValueTokens(trim(Unwrap(string(s))[2]),
                     Append(res, VString(as_bytes(Unwrap(string(s))[1]))))
    ELSE [res |-> "ParseError", values |-> <<>>]

value_tokens(s) == ValueTokens(s, <<>>)

NoStatement == [res |-> "Ok", kind |-> "none", values |-> <<>>, index |-> 0]

\* Statement::insert_statement
insert_statement(values, schema) ==
    LET v == value_tokens(values)
    IN  IF v.res # "Ok" \/ ~insert_statement_ok(v.values, schema)
        THEN [NoStatement EXCEPT !.res = "ParseError"]
        ELSE [NoStatement EXCEPT !.kind = "Insert", !.values = v.values]

\* str::parse::<usize>: digits, after an optional +
ParsesAsUsize(s) ==
    LET d == IF s # <<>> /\ s[1] = "+" THEN Tail(s) ELSE s
    IN  d # <<>> /\ DigitRun(d) = Len(d)

\* prepare_statement.  [res, kind, values, index]; res "panic" is the unwrap
\* of a failed parse
prepare_statement(s, schema) ==
    LET sp == split_once(s) IN
    IF sp = None THEN [NoStatement EXCEPT !.res = "ParseError"]
    ELSE
    LET command == Unwrap(sp)[1]
        args    == Unwrap(sp)[2]
    IN  IF command = <<"i", "n", "s", "e", "r", "t">>
        THEN insert_statement(args, schema)
        ELSE IF command = <<"r", "e", "a", "d">>
        THEN IF ParsesAsUsize(args)
             THEN [NoStatement EXCEPT !.kind = "Read",
                      !.index = DecimalValue(IF args[1] = "+" THEN Tail(args)
                                                             ELSE args)]
             ELSE [NoStatement EXCEPT !.res = "panic"]
        ELSE [NoStatement EXCEPT !.res = "UnrecognizedCommand"]

\* <Command as FromStr>::from_str: "Ok" is Command::Exit
Command_from_str(s) ==
    IF s = <<>> \/ s[1] # "." THEN "UnrecognizedCommand"
    ELSE IF Tail(s) = <<"e", "x", "i", "t">> THEN "Ok"
    ELSE "UnrecognizedCommand"

-----------------------------------------------------------------------------
(* The inputs.                                                             *)

\* the schema of main.rs's global table: row_size 18
MainSchema == [feilds |-> << <<"a", DNumber>>, <<"b", DString(10)>> >>]

\* "hi", and a string of ten bytes: one more than a String(10) holds
Hi == <<104, 105>>

TenBytes == [i \in 1..10 |-> 120]

RowInputs == { <<VNumber(1), VString(Hi)>>, <<VNumber(3), VString(TenBytes)>> }

\* what a statement may carry: the rows above, a row whose values are of
\* the wrong kinds for MainSchema, and a row of one value only
InsertInputs ==
    RowInputs \cup { <<VString(Hi), VNumber(1)>>, <<VNumber(1)>> }

MaxReadIndex == 1

ReadInputs == 0..MaxReadIndex

\* at most this many file operations fail in one behaviour
MaxFaults == 1

\* a string value longer than the payload (size - 1 bytes) of its field
TooLong(values, schema) ==
    \E i \in 1..Min(Len(values), Len(schema.feilds)) :
        /\ schema.feilds[i][2].ty = "String"
        /\ values[i].ty = "String"
        /\ Len(values[i].v) > schema.feilds[i][2].size - 1

-----------------------------------------------------------------------------
(* The table, as a state machine: one action per call.                     *)

NoCall == [op |-> "none", res |-> "Ok", values |-> <<>>, index |-> 0,
           out |-> <<>>, line |-> <<>>]

IdleTable ==
    /\ file = EmptyFile
    /\ table = [header |-> ZeroHeader, pages |-> Pager_new(0)]
    /\ pc = "idle"
    /\ last = NoCall
    /\ hist = <<>>
    /\ faults = 0
    /\ restarted = FALSE

IdleCodec == cpage = <<>> /\ cschema = [feilds |-> <<>>] /\ cio = <<>>

IdleLeaf == leaf = <<>> /\ lnew = None /\ lkeys = <<>> /\ llast = <<>>

IdleInternal == inode = <<>> /\ imade = <<>> /\ ilast = <<>>

IdlePager ==
    /\ pgr = <<>> /\ pfile = EmptyFile /\ plast = <<>>
    /\ pview = <<>> /\ pflushed = <<>> /\ popen = <<>>

\* Table::new on a file that does not exist yet
Init ==
    /\ LET r == Table_new("global", MainSchema, EmptyFile)
       IN  table = r.table /\ file = r.file
    /\ pc = "open"
    /\ last = NoCall
    /\ hist = <<>>
    /\ faults = 0
    /\ restarted = FALSE
    /\ IdleCodec
    /\ IdleLeaf
    /\ IdlePager
    /\ IdleInternal

\* the bytes of row `index` of a page
RowBytes(bytes, index, schema) ==
    Slice(bytes, index * row_size(schema), (index + 1) * row_size(schema))

\* prepare_statement's insert arm, then execution's Table::insert
Insert(values, io) ==
    /\ pc = "open"
    /\ io # "none" => faults < MaxFaults
    /\ IF ~insert_statement_ok(values, table.header.schema)
       THEN /\ last' = [NoCall EXCEPT !.op = "insert", !.res = "ParseError",
                                      !.values = values]
            /\ UNCHANGED <<file, table, pc, hist, faults>>
       ELSE \E r \in {Table_insert(table, file, values, io)} :
            LET page  == InsertPageIndex(table)
                index == InsertRowIndex(table)
            IN  /\ file' = r.file
                /\ table' = r.table
                /\ pc' = IF r.res = "panic" THEN "panicked" ELSE "open"
                /\ last' = [NoCall EXCEPT !.op = "insert", !.res = r.res,
                                          !.values = values]
                /\ hist' =
                     IF r.res = "Ok"
                     THEN Append(hist,
                            [values |-> values, page |-> page,
                             index  |-> index,
                             bytes  |-> RowBytes(Unwrap(r.table.pages.cache[page]),
                                                 index, table.header.schema),
                             old    |-> FALSE])
                     ELSE hist
                /\ faults' = IF r.res = "IOError" THEN faults + 1 ELSE faults
    /\ UNCHANGED <<internalVars, restarted, codecVars, leafVars, pagerVars>>

\* execution's Table::read
Read(index, io) ==
    /\ pc = "open"
    /\ io # "none" => faults < MaxFaults
    /\ \E r \in {Table_read(table, file, index, io)} :
           /\ file' = r.file
           /\ table' = r.table
           /\ pc' = IF r.res = "panic" THEN "panicked" ELSE "open"
           /\ last' = [NoCall EXCEPT !.op = "read", !.res = r.res,
                                     !.index = index, !.out = r.out]
           /\ faults' = IF r.res = "IOError" THEN faults + 1 ELSE faults
    /\ UNCHANGED <<internalVars, hist, restarted, codecVars, leafVars, pagerVars>>

\* the process ends (or has panicked) and a new one runs Table::new over
\* the same file
Reopen ==
    /\ pc \in {"open", "panicked"}
    /\ LET r == Table_new("global", MainSchema, file)
       IN  table' = r.table /\ file' = r.file
    /\ pc' = "open"
    /\ last' = [NoCall EXCEPT !.op = "new"]
    /\ hist' = [i \in 1..Len(hist) |-> [hist[i] EXCEPT !.old = TRUE]]
    /\ restarted' = TRUE
    /\ UNCHANGED <<internalVars, faults, codecVars, leafVars, pagerVars>>

\* every file operation succeeds
Next ==
    \/ \E values \in InsertInputs : Insert(values, "none")
    \/ \E index \in ReadInputs : Read(index, "none")
    \/ Reopen

Spec == Init /\ [][Next]_vars

\* file operations may fail
NextFaults ==
    \/ \E values \in InsertInputs, io \in IOPoints : Insert(values, io)
    \/ \E index \in ReadInputs, io \in IOPoints : Read(index, io)
    \/ Reopen

SpecFaults == Init /\ [][NextFaults]_vars

\* Table::new over a file that exists already: a header of MainSchema that
\* counts any number of rows, up to one more than max_rows, and the pages
\* of those rows
ExistingFile(num_rows) ==
    [hdr   |-> Some([name |-> "global", schema |-> MainSchema,
                     num_rows |-> num_rows]),
     pages |-> [i \in 1..div_ceil(num_rows, PAGE_SIZE \div row_size(MainSchema))
                  |-> PageNew]]

InitExisting ==
    /\ \E num_rows \in 0..(TABLE_MAX_PAGE * (PAGE_SIZE \div row_size(MainSchema)) + 1) :
         LET r == Table_new("global", MainSchema, ExistingFile(num_rows))
         IN  table = r.table /\ file = r.file
    /\ pc = "open"
    /\ last = NoCall
    /\ hist = <<>>
    /\ faults = 0
    /\ restarted = FALSE
    /\ IdleCodec
    /\ IdleLeaf
    /\ IdlePager
    /\ IdleInternal

SpecExisting == InitExisting /\ [][Next]_vars

-----------------------------------------------------------------------------
(* main.rs: the loop of main, one line of input at a time.  pc "exited"    *)
(* is std::process::exit(0), "failed" is main returning Err (the ? of the  *)
(* loop body), "panicked" an unwrap that failed.                           *)

InsertWord == <<"i", "n", "s", "e", "r", "t">>

ReadWord == <<"r", "e", "a", "d">>

HiText == <<"\"", "h", "i", "\"">>

MainLines ==
    { InsertWord \o <<" ", "1", " ">> \o HiText,        \* insert 1 "hi"
      InsertWord \o <<" ">> \o HiText \o <<" ", "1">>,  \* insert "hi" 1
      InsertWord \o <<" ", "1">>,                       \* insert 1
      InsertWord \o <<" ", "x">>,                       \* insert x
      InsertWord,                                       \* insert
      ReadWord \o <<" ", "0">>,                         \* read 0
      ReadWord \o <<" ", "x">>,                         \* read x
      <<"s", "e", "l", "e", "c", "t", " ", "1">>,       \* select 1
      <<"s", "e", "l", "e", "c", "t">>,                 \* select
      <<".", "e", "x", "i", "t">>,                      \* .exit
      <<".", "q", "u", "i", "t">>,                      \* .quit
      <<>> }                                            \* an empty line

\* what a line that is a statement does: prepare_statement(..)?, then
\* execution(..).unwrap()
MainStatement(line) ==
    \E st \in {prepare_statement(line, table.header.schema)} :
       IF st.res # "Ok" THEN
           /\ pc' = IF st.res = "panic" THEN "panicked" ELSE "failed"
           /\ last' = [NoCall EXCEPT !.op = "line", !.line = line, !.res = st.res]
           /\ UNCHANGED <<file, table, hist>>
       ELSE IF st.kind = "Insert" THEN
           \E r \in {Table_insert(table, file, st.values, "none")} :
              /\ file' = r.file
              /\ table' = r.table
              /\ pc' = IF r.res = "Ok" THEN "open" ELSE "panicked"
              /\ last' = [NoCall EXCEPT !.op = "line", !.line = line,
                                        !.res = r.res, !.values = st.values]
              /\ hist' =
                   IF r.res = "Ok"
                   THEN Append(hist,
                          [values |-> st.values, page |-> InsertPageIndex(table),
                           index  |-> InsertRowIndex(table),
                           bytes  |-> RowBytes(
                               Unwrap(r.table.pages.cache[InsertPageIndex(table)]),
                               InsertRowIndex(table), table.header.schema),
                           old    |-> FALSE])
                   ELSE hist
       ELSE
           \E r \in {Table_read(table, file, st.index, "none")} :
              /\ file' = r.file
              /\ table' = r.table
              /\ pc' = IF r.res = "Ok" THEN "open" ELSE "panicked"
              /\ last' = [NoCall EXCEPT !.op = "line", !.line = line,
                                        !.res = r.res, !.index = st.index,
                                        !.out = r.out]
              /\ UNCHANGED hist

\* one turn of the loop of main on the line repl.input() returned
MainLine(line) ==
    /\ pc = "open"
    /\ IF line # <<>> /\ line[1] = "."
       THEN \* line.parse::<Command>()?  then do_meta_commands: exit(0)
            /\ pc' = IF Command_from_str(line) = "Ok" THEN "exited" ELSE "failed"
            /\ last' = [NoCall EXCEPT !.op = "line", !.line = line,
                           !.res = IF Command_from_str(line) = "Ok" THEN "exit"
                                   ELSE Command_from_str(line)]
            /\ UNCHANGED <<file, table, hist>>
       ELSE MainStatement(line)
    /\ UNCHANGED <<internalVars, faults, restarted, codecVars, leafVars, pagerVars>>

\* repl.input() at the end of the input: std::process::exit(0)
MainEof ==
    /\ pc = "open"
    /\ pc' = "exited"
    /\ last' = [NoCall EXCEPT !.op = "eof", !.res = "exit"]
    /\ UNCHANGED <<internalVars, file, table, hist, faults, restarted, codecVars, leafVars,
                   pagerVars>>

NextMain ==
    \/ \E line \in MainLines : MainLine(line)
    \/ MainEof

SpecMain == InitExisting /\ [][NextMain]_vars

-----------------------------------------------------------------------------
(* The row codec on its own: write_row and read_row on one Page, as the    *)
(* test read_scalar_from_page drives them.                                 *)

StringFirstSchema == [feilds |-> << <<"b", DString(10)>>, <<"a", DNumber>> >>]

TwoStringSchema == [feilds |-> << <<"s", DString(3)>>, <<"t", DString(10)>> >>]

CodecSchemas == {MainSchema, StringFirstSchema, TwoStringSchema}

\* values of a field that fit it: a string is at most size - 1 bytes long
FieldValues(ty) ==
    IF ty.ty = "String"
    THEN {VString(<<>>), VString(Hi), VString([i \in 1..(ty.size - 1) |-> 120])}
    ELSE {VNumber(1), VNumber(-2)}

CodecRows(schema) ==
    LET n == Len(schema.feilds)
    IN  {row \in [1..n -> UNION {FieldValues(schema.feilds[i][2]) : i \in 1..n}] :
            \A i \in 1..n : row[i] \in FieldValues(schema.feilds[i][2])}

\* the codec is driven on the first rows of the page only
MaxCodecRows == 2

CodecIndexes(schema) ==
    0..(Min(MaxCodecRows, PAGE_SIZE \div row_size(schema)) - 1)

InitCodec ==
    /\ cschema \in CodecSchemas
    /\ cpage = PageNew
    /\ cio = [op |-> "none", index |-> 0, panic |-> FALSE, out |-> <<>>,
              rows |-> [i \in CodecIndexes(cschema) |-> None]]
    /\ IdleTable
    /\ IdleLeaf
    /\ IdlePager
    /\ IdleInternal

\* page.write_row(index, &schema, values)
CodecWrite(index, values) ==
    /\ \E w \in {write_row(cpage, index, cschema, values)} :
          /\ cpage' = w.bytes
          /\ cio' = [op |-> "write_row", index |-> index, panic |-> w.panic,
                     out |-> <<>>,
                     rows |-> [cio.rows EXCEPT ![index] = Some(values)]]
    /\ UNCHANGED <<internalVars, cschema, tableVars, leafVars, pagerVars>>

\* page.read_row(index, &schema)
CodecRead(index) ==
    /\ \E r \in {read_row(cpage, index, cschema)} :
          cio' = [cio EXCEPT !.op = "read_row", !.index = index,
                             !.panic = r.panic, !.out = r.values]
    /\ UNCHANGED <<internalVars, cpage, cschema, tableVars, leafVars, pagerVars>>

NextCodec ==
    \/ \E index \in CodecIndexes(cschema), values \in CodecRows(cschema) :
          CodecWrite(index, values)
    \/ \E index \in CodecIndexes(cschema) : CodecRead(index)

SpecCodec == InitCodec /\ [][NextCodec]_vars

-----------------------------------------------------------------------------
(* tree.rs: LeafNode.  A leaf is its bytes; a u32 is four bytes, least     *)
(* significant first (to_ne_bytes / from_ne_bytes of the build target).    *)

NODE_TYPE_SIZE == 1

NODE_TYPE_OFFSET == 0

IS_ROOT_SIZE == 1

IS_ROOT_OFFSET == NODE_TYPE_SIZE

PARENT_POINTER_SIZE == 4

PARENT_POINTER_OFFSET == IS_ROOT_OFFSET + IS_ROOT_SIZE

COMMON_NODE_HEADER_SIZE == NODE_TYPE_SIZE + IS_ROOT_SIZE + PARENT_POINTER_SIZE

NUM_CELLS_SIZE == 4

NUM_CELLS_OFFSET == COMMON_NODE_HEADER_SIZE

NEXT_LEAF_SIZE == 4

NEXT_LEAF_OFFSET == NUM_CELLS_OFFSET + NUM_CELLS_SIZE

HEADER_SIZE == NEXT_LEAF_OFFSET + NEXT_LEAF_SIZE

KEY_SIZE == 4

\* the size of a node's byte array (4096 in the code), scaled down
LEAF_SIZE == 50

u32_to_ne_bytes(v) == [k \in 1..4 |-> (v \div (256 ^ (k - 1))) % 256]

u32_from_ne_bytes(b) == b[1] + 256 * b[2] + 65536 * b[3] + 16777216 * b[4]

LeafNode_new == Zeros(LEAF_SIZE)

cell_size(value_size) == KEY_SIZE + value_size

max_cells(value_size) == (LEAF_SIZE - HEADER_SIZE) \div cell_size(value_size)

parent(bytes) ==
    u32_from_ne_bytes(Slice(bytes, PARENT_POINTER_OFFSET,
                            PARENT_POINTER_OFFSET + PARENT_POINTER_SIZE))

set_parent(bytes, val) == WriteAt(bytes, PARENT_POINTER_OFFSET, u32_to_ne_bytes(val))

next_leaf(bytes) ==
    u32_from_ne_bytes(Slice(bytes, NEXT_LEAF_OFFSET, NEXT_LEAF_OFFSET + NEXT_LEAF_SIZE))

set_next_leaf(bytes, val) == WriteAt(bytes, NEXT_LEAF_OFFSET, u32_to_ne_bytes(val))

num_cells(bytes) ==
    u32_from_ne_bytes(Slice(bytes, NUM_CELLS_OFFSET, NUM_CELLS_OFFSET + NUM_CELLS_SIZE))

set_num_cells(bytes, value) == WriteAt(bytes, NUM_CELLS_OFFSET, u32_to_ne_bytes(value))

key(bytes, index, value_size) ==
    LET offset == HEADER_SIZE + index * cell_size(value_size)
    IN  u32_from_ne_bytes(Slice(bytes, offset, offset + KEY_SIZE))

cell(bytes, index, value_size) ==
    LET offset == HEADER_SIZE + index * cell_size(value_size)
    IN  Slice(bytes, offset, offset + cell_size(value_size))

\* a slice of the node that ends beyond its bytes: the index panics
CellInRange(index, value_size) ==
    HEADER_SIZE + (index + 1) * cell_size(value_size) <= LEAF_SIZE

copy_within(bytes, value_size, src, dst) ==
    WriteAt(bytes, HEADER_SIZE + dst * cell_size(value_size),
            cell(bytes, src, value_size))

\* [panic, row]: row is <<key, values>>.  The loop over the fields is the one
\* of Page::read_row, on the value bytes of the cell.
leaf_read_row(bytes, index, schema) ==
    LET value_size == row_size(schema)
        c == cell(bytes, index, value_size)
        r == ReadFields(Slice(c, KEY_SIZE, Len(c)), schema.feilds, 1, 0, <<>>)
    IN  IF ~CellInRange(index, value_size)
        THEN [panic |-> TRUE, row |-> <<>>]
        ELSE [panic |-> r.panic,
              row |-> <<u32_from_ne_bytes(Slice(c, 0, KEY_SIZE)), r.values>>]

\* [panic, bytes].  The loop over the fields is the one of Page::write_row,
\* on the cell, from offset KEY_SIZE.
serialize_row(bytes, index, schema, k, values) ==
    LET value_size == row_size(schema)
        c0 == WriteAt(cell(bytes, index, value_size), 0, u32_to_ne_bytes(k))
        w  == WriteFields(c0, schema.feilds, values, 1, KEY_SIZE)
    IN  IF ~CellInRange(index, value_size)
        THEN [panic |-> TRUE, bytes |-> bytes]
        ELSE [panic |-> w.panic,
              bytes |-> WriteAt(bytes, HEADER_SIZE + index * cell_size(value_size),
                                w.bytes)]

\* the loop of binary_search, from its state (left, right)
RECURSIVE BinarySearchLoop(_, _, _, _, _)
BinarySearchLoop(bytes, k, value_size, left, right) ==
    IF left < right
    THEN LET mid == left + (right - left) \div 2
             m   == key(bytes, mid, value_size)
         IN  IF m < k THEN BinarySearchLoop(bytes, k, value_size, mid + 1, right)
             ELSE IF m = k THEN Some(mid)
             ELSE BinarySearchLoop(bytes, k, value_size, left, mid)
    ELSE None

\* a search that drops the probed cell's left neighbour as well
RECURSIVE BinarySearchLoop_RightExclusive(_, _, _, _, _)
BinarySearchLoop_RightExclusive(bytes, k, value_size, left, right) ==
    IF left < right
    THEN LET mid == left + (right - left) \div 2
             m   == key(bytes, mid, value_size)
         IN  IF m < k
             THEN BinarySearchLoop_RightExclusive(bytes, k, value_size, mid + 1, right)
             ELSE IF m = k THEN Some(mid)
             ELSE BinarySearchLoop_RightExclusive(bytes, k, value_size, left, mid - 1)
    ELSE None

binary_search_RightExclusive(bytes, k, value_size) ==
    BinarySearchLoop_RightExclusive(bytes, k, value_size, 0, num_cells(bytes))

binary_search(bytes, k, value_size) ==
    BinarySearchLoop(bytes, k, value_size, 0, num_cells(bytes))

\* cells that are not moved out of the way of the new one
ShiftCells_Skipped(bytes, value_size, i, index) == bytes

\* for i in (index..num_cells).rev() { copy_within(i, i + 1) }, from i down
RECURSIVE ShiftCells(_, _, _, _)
ShiftCells(bytes, value_size, i, index) ==
    IF i < index THEN bytes
    ELSE ShiftCells(copy_within(bytes, value_size, i, i + 1), value_size,
                    i - 1, index)

\* The first loop of the split, from i on: it rewrites the cells of self in
\* place, in ascending order of i.  [panic, bytes]
RECURSIVE SplitLeft(_, _, _, _, _, _, _)
SplitLeft(bytes, i, index, left_count, schema, k, values) ==
    IF i >= left_count THEN [panic |-> FALSE, bytes |-> bytes]
    ELSE
    LET value_size == row_size(schema)
        index_within_node == i % left_count
    IN  IF i = index THEN
            LET w == serialize_row(bytes, index_within_node, schema, k, values)
            IN  IF w.panic THEN w
                ELSE SplitLeft(w.bytes, i + 1, index, left_count, schema, k, values)
        ELSE IF i > index THEN
            SplitLeft(copy_within(bytes, value_size, i - 1, index_within_node),
                      i + 1, index, left_count, schema, k, values)
        ELSE
            SplitLeft(copy_within(bytes, value_size, i, index_within_node),
                      i + 1, index, left_count, schema, k, values)

\* The second loop of the split, from i on: it fills new_node from the cells
\* self has after the first loop.  [panic, bytes] of new_node
RECURSIVE SplitRight(_, _, _, _, _, _, _, _, _)
SplitRight(self, new_node, i, index, left_count, max, schema, k, values) ==
    IF i > max THEN [panic |-> FALSE, bytes |-> new_node]
    ELSE
    LET value_size == row_size(schema)
        index_within_node == i % left_count
        dst == HEADER_SIZE + index_within_node * cell_size(value_size)
    IN  IF i = index THEN
            LET w == serialize_row(new_node, index_within_node, schema, k, values)
            IN  IF w.panic THEN w
                ELSE SplitRight(self, w.bytes, i + 1, index, left_count, max,
                                schema, k, values)
        ELSE IF ~CellInRange(index_within_node, value_size) THEN
            [panic |-> TRUE, bytes |-> new_node]
        ELSE IF i > index THEN
            SplitRight(self, WriteAt(new_node, dst, cell(self, i - 1, value_size)),
                       i + 1, index, left_count, max, schema, k, values)
        ELSE
            SplitRight(self, WriteAt(new_node, dst, cell(self, i, value_size)),
                       i + 1, index, left_count, max, schema, k, values)

\* how many of the max_cells + 1 entries of a split go to the new node
right_split_count_RoundedDown(max) == max \div 2

leaf_node_right_split_count(max) == (max + 1) \div 2

leaf_node_left_split_count(max) == (max + 1) - leaf_node_right_split_count(max)

\* a new node that takes no link from self
split_new_node_Unlinked(bytes) == LeafNode_new

\* the new node of a split before any cell is copied: it takes both links
\* of self
split_new_node(bytes) ==
    set_next_leaf(set_parent(LeafNode_new, parent(bytes)), next_leaf(bytes))

\* [panic, leaf, new_node]: self afterwards and the Option<LeafNode> returned
leaf_node_split_and_insert(bytes, k, values, schema) ==
    LET value_size == row_size(schema)
        max   == max_cells(value_size)
        found == binary_search(bytes, k, value_size)
        index == IF IsSome(found) THEN Unwrap(found) ELSE 0
        n     == num_cells(bytes)
    IN  IF n < max THEN
            LET w == serialize_row(ShiftCells(bytes, value_size, n - 1, index),
                                   index, schema, k, values)
            IN  [panic |-> w.panic,
                 leaf |-> IF w.panic THEN w.bytes ELSE set_num_cells(w.bytes, n + 1),
                 new_node |-> None]
        ELSE
            LET new0  == split_new_node(bytes)
                l == SplitLeft(bytes, 0, index, leaf_node_left_split_count(max),
                               schema, k, values)
                r == SplitRight(l.bytes, new0, leaf_node_left_split_count(max),
                                index, leaf_node_left_split_count(max), max,
                                schema, k, values)
            IN  IF l.panic \/ r.panic
                THEN [panic |-> TRUE, leaf |-> l.bytes, new_node |-> None]
                ELSE [panic |-> FALSE,
                      leaf |-> set_num_cells(l.bytes,
                                             leaf_node_left_split_count(max)),
                      new_node |-> Some(set_num_cells(r.bytes,
                                            leaf_node_right_split_count(max)))]

-----------------------------------------------------------------------------
(* One leaf, driven as the tests of tree.rs drive it: inserts into a new   *)
(* LeafNode until it splits, and searches.                                 *)

LeafSchema == [feilds |-> << <<"a", DNumber>> >>]

MaxKey == 3

LeafKeys == 0..MaxKey

LeafValues == { <<VNumber(1)>>, <<VNumber(2)>> }

NoLeafCall == [op |-> "none", key |-> 0, res |-> None, panic |-> FALSE]

\* the parent and next-leaf pointers the leaf is given before the inserts:
\* those of LeafNode::new, or some set by set_parent and set_next_leaf
LeafLinks == { <<0, 0>>, <<5, 7>> }

InitLeaf ==
    /\ \E links \in LeafLinks :
          leaf = set_next_leaf(set_parent(LeafNode_new, links[1]), links[2])
    /\ lnew = None
    /\ lkeys = <<>>
    /\ llast = NoLeafCall
    /\ IdleTable
    /\ IdleCodec
    /\ IdlePager
    /\ IdleInternal

\* page.leaf_node_split_and_insert(key, values, &schema), on a leaf that has
\* not split yet
LeafInsert(k, values) ==
    /\ lnew = None
    /\ ~llast.panic
    /\ \E r \in {leaf_node_split_and_insert(leaf, k, values, LeafSchema)} :
          /\ leaf' = r.leaf
          /\ lnew' = r.new_node
          /\ llast' = [op |-> "insert", key |-> k, res |-> None, panic |-> r.panic]
    /\ lkeys' = Append(lkeys, <<k, values>>)
    /\ UNCHANGED <<internalVars, tableVars, codecVars, pagerVars>>

\* page.binary_search(key, value_size)
LeafFind(k) ==
    /\ ~llast.panic
    /\ llast' = [op |-> "find", key |-> k,
                 res |-> binary_search(leaf, k, row_size(LeafSchema)),
                 panic |-> FALSE]
    /\ UNCHANGED <<internalVars, leaf, lnew, lkeys, tableVars, codecVars, pagerVars>>

NextLeaf ==
    \/ \E k \in LeafKeys, values \in LeafValues : LeafInsert(k, values)
    \/ \E k \in LeafKeys : LeafFind(k)

SpecLeaf == InitLeaf /\ [][NextLeaf]_vars

-----------------------------------------------------------------------------
(* The Pager on its own, driven as tests::pager_test drives it: a file of  *)
(* the header's length, a Pager of no pages over it, pages fetched and     *)
(* filled, pages flushed, the Pager dropped and a new one created over     *)
(* the same file.  A page is changed through the reference page() returns, *)
(* which the borrow ends before the next call on the Pager.                *)

\* (&mut page.bytes).fill_with(|| b)
Filled(b) == [i \in 1..PAGE_SIZE |-> b]

\* the byte page `index` is filled with: pages get distinct contents
FillOf(index) == index + 1

PagerIndexes == 0..TABLE_MAX_PAGE

NoPages == [i \in 0..(TABLE_MAX_PAGE - 1) |-> None]

NoPagerCall == [op |-> "none", index |-> 0, res |-> "Ok", out |-> None]

InitPager ==
    /\ pfile = SetLen(EmptyFile, HEADER_SPACE)
    /\ pgr = Pager_new(0)
    /\ plast = NoPagerCall
    /\ pview = NoPages
    /\ pflushed = NoPages
    /\ popen = [reopened |-> FALSE, pages |-> 0, written |-> FALSE, clean |-> TRUE]
    /\ IdleTable
    /\ IdleCodec
    /\ IdleLeaf
    /\ IdleInternal

PagerAlive == plast.res # "panic"

\* pager.page(index), and with fill the page returned is filled
PagerPage(index, fill) ==
    /\ PagerAlive
    /\ \E r \in {Pager_page(pgr, pfile, index, "none")} :
          LET got == IF r.res = "Ok" THEN r.pager.cache[index] ELSE None
              now == IF r.res = "Ok" /\ fill
                     THEN Some(Filled(FillOf(index))) ELSE got
          IN  /\ pfile' = r.file
              /\ pgr' = IF r.res = "Ok"
                          THEN [r.pager EXCEPT !.cache[index] = now]
                          ELSE r.pager
              /\ plast' = [op |-> "page", index |-> index, res |-> r.res,
                           out |-> got]
              /\ pview' = IF r.res = "Ok" THEN [pview EXCEPT ![index] = now]
                          ELSE pview
              /\ popen' = [popen EXCEPT !.clean =
                              @ /\ ~fill /\ index < popen.pages]
    /\ UNCHANGED <<internalVars, pflushed, tableVars, codecVars, leafVars>>

\* pager.flush_page(index)
PagerFlush(index) ==
    /\ PagerAlive
    /\ index < TABLE_MAX_PAGE
    /\ \E r \in {Pager_flush_page(pgr, pfile, index, "none")} :
          /\ pfile' = r.file
          /\ plast' = [op |-> "flush_page", index |-> index, res |-> r.res,
                       out |-> None]
    /\ pflushed' = IF IsSome(pgr.cache[index])
                   THEN [pflushed EXCEPT ![index] = pgr.cache[index]]
                   ELSE pflushed
    /\ popen' = [popen EXCEPT !.clean = FALSE]
    /\ UNCHANGED <<internalVars, pgr, pview, tableVars, codecVars, leafVars>>

\* drop(pager); Pager::new(file, pages)
PagerReopen(pages) ==
    /\ PagerAlive
    /\ ~popen.reopened
    /\ pgr' = Pager_new(pages)
    /\ plast' = [NoPagerCall EXCEPT !.op = "new"]
    /\ pview' = NoPages
    /\ popen' = [reopened |-> TRUE, pages |-> pages,
                 written |-> \A i \in 0..(pages - 1) :
                                pflushed[i] = Some(Filled(FillOf(i))),
                 clean |-> TRUE]
    /\ UNCHANGED <<internalVars, pfile, pflushed, tableVars, codecVars, leafVars>>

NextPager ==
    \/ \E index \in PagerIndexes, fill \in BOOLEAN : PagerPage(index, fill)
    \/ \E index \in PagerIndexes : PagerFlush(index)
    \/ \E pages \in 1..TABLE_MAX_PAGE : PagerReopen(pages)

SpecPager == InitPager /\ [][NextPager]_vars

-----------------------------------------------------------------------------
(* tree.rs: InternalNode.  The node is the bytes of one page, of LEAF_SIZE *)
(* bytes like the leaf's: the common header, num_keys, the rightmost child *)
(* and cells of a child pointer followed by a key.                         *)

NODE_NUM_KEYS_SIZE == 4

NODE_NUM_KEYS_OFFSET == COMMON_NODE_HEADER_SIZE

NODE_RIGHT_CHILD_SIZE == 4

NODE_RIGHT_CHILD_OFFSET == NODE_NUM_KEYS_OFFSET + NODE_NUM_KEYS_SIZE

NODE_HEADER_SIZE ==
    COMMON_NODE_HEADER_SIZE + NODE_NUM_KEYS_SIZE + NODE_RIGHT_CHILD_SIZE

NODE_KEY_SIZE == 4

NODE_CHILD_SIZE == 4

NODE_CELL_SIZE == NODE_CHILD_SIZE + NODE_KEY_SIZE

NODE_MAX_CELLS == (LEAF_SIZE - NODE_HEADER_SIZE) \div NODE_CELL_SIZE

num_keys(bytes) ==
    u32_from_ne_bytes(Slice(bytes, NODE_NUM_KEYS_OFFSET,
                            NODE_NUM_KEYS_OFFSET + NODE_NUM_KEYS_SIZE))

cell_offset(index) == NODE_HEADER_SIZE + index * NODE_CELL_SIZE

key_offset(index) == cell_offset(index) + NODE_CHILD_SIZE

right_most_child(bytes) ==
    u32_from_ne_bytes(Slice(bytes, NODE_RIGHT_CHILD_OFFSET,
                            NODE_RIGHT_CHILD_OFFSET + NODE_RIGHT_CHILD_SIZE))

\* a lookup to the right that looks at the cell itself
children_RightNotAdvanced(bytes, index, pos) ==
    IF index = num_keys(bytes)
    THEN [panic |-> FALSE, value |-> right_most_child(bytes)]
    ELSE IF index > num_keys(bytes) \/ cell_offset(index) + NODE_CHILD_SIZE > LEAF_SIZE
    THEN [panic |-> TRUE, value |-> 0]
    ELSE [panic |-> FALSE,
          value |-> u32_from_ne_bytes(Slice(bytes, cell_offset(index),
                                            cell_offset(index) + NODE_CHILD_SIZE))]

\* InternalNode::children.  [panic, value]; pos is "Left" or "Right".  The
\* slice of a cell that lies beyond the page panics as well
children(bytes, index, pos) ==
    LET i == IF pos = "Right" THEN index + 1 ELSE index
    IN  IF i = num_keys(bytes)
        THEN [panic |-> FALSE, value |-> right_most_child(bytes)]
        ELSE IF i > num_keys(bytes) \/ cell_offset(i) + NODE_CHILD_SIZE > LEAF_SIZE
        THEN [panic |-> TRUE, value |-> 0]
        ELSE [panic |-> FALSE,
              value |-> u32_from_ne_bytes(Slice(bytes, cell_offset(i),
                                                cell_offset(i) + NODE_CHILD_SIZE))]

\* the bytes of an internal page of these children, keys and rightmost
\* child: cells written from cell i on
RECURSIVE InternalCells(_, _, _, _)
InternalCells(bytes, childs, keys, i) ==
    IF i >= Len(childs) THEN bytes
    ELSE InternalCells(
             WriteAt(WriteAt(bytes, cell_offset(i), u32_to_ne_bytes(childs[i + 1])),
                     key_offset(i), u32_to_ne_bytes(keys[i + 1])),
             childs, keys, i + 1)

InternalPage(childs, keys, right) ==
    InternalCells(
        WriteAt(WriteAt(Zeros(LEAF_SIZE), NODE_NUM_KEYS_OFFSET,
                        u32_to_ne_bytes(Len(childs))),
                NODE_RIGHT_CHILD_OFFSET, u32_to_ne_bytes(right)),
        childs, keys, 0)

\* page indexes children point to: two numberings of the cells' children
\* and two rightmost children, one of them a page a cell points to as well
ChildBases == {10, 300}

RightChildren == {7, 12}

InternalIndexes == 0..(NODE_MAX_CELLS + 1)

\* InternalNode::new(bytes) over a page of 0 to NODE_MAX_CELLS keys
InitInternal ==
    /\ \E k \in 0..NODE_MAX_CELLS, base \in ChildBases, right \in RightChildren :
          /\ imade = [childs |-> [i \in 1..k |-> base + i], right |-> right]
          /\ inode = InternalPage(imade.childs, [i \in 1..k |-> 2 * i], right)
    /\ ilast = [op |-> "none", index |-> 0, pos |-> "Left",
                res |-> [panic |-> FALSE, value |-> 0]]
    /\ IdleTable
    /\ IdleCodec
    /\ IdleLeaf
    /\ IdlePager

\* node.children(index, pos); a panic ends the use of the node
Children(index, pos) ==
    /\ ~ilast.res.panic
    /\ ilast' = [op |-> "children", index |-> index, pos |-> pos,
                 res |-> children(inode, index, pos)]
    /\ UNCHANGED <<inode, imade, tableVars, codecVars, leafVars, pagerVars>>

NextInternal ==
    \E index \in InternalIndexes, pos \in {"Left", "Right"} : Children(index, pos)

SpecInternal == InitInternal /\ [][NextInternal]_vars

-----------------------------------------------------------------------------
(* Table::new by itself: called with any name and schema over a file that  *)
(* is empty or was written by a table of any name and schema, and called   *)
(* again (the next process) over the file it left.                         *)

TableNames == {"global", "other"}

TableSchemas == {MainSchema, TwoStringSchema}

\* a file written by a table of this name and schema that holds num_rows
\* rows
StoredFile(name, schema, num_rows) ==
    [hdr   |-> Some([name |-> name, schema |-> schema, num_rows |-> num_rows]),
     pages |-> [i \in 1..div_ceil(num_rows, PAGE_SIZE \div row_size(schema))
                  |-> PageNew]]

StoredRows(schema) == 0..(TABLE_MAX_PAGE * (PAGE_SIZE \div row_size(schema)))

InitNew ==
    /\ \/ file = EmptyFile
       \/ \E name \in TableNames, schema \in TableSchemas :
             \E num_rows \in StoredRows(schema) :
                file = StoredFile(name, schema, num_rows)
    /\ table = [header |-> ZeroHeader, pages |-> Pager_new(0)]
    /\ pc = "closed"
    /\ last = NoCall
    /\ hist = <<>>
    /\ faults = 0
    /\ restarted = FALSE
    /\ IdleCodec
    /\ IdleLeaf
    /\ IdlePager
    /\ IdleInternal

\* Table::new(name, schema, path)
New(name, schema) ==
    /\ pc \in {"closed", "open"}
    /\ LET r == Table_new(name, schema, file)
       IN  table' = r.table /\ file' = r.file
    /\ pc' = "open"
    /\ last' = [NoCall EXCEPT !.op = "new", !.values = <<name, schema>>]
    /\ restarted' = (pc = "open")
    /\ UNCHANGED <<internalVars, hist, faults, codecVars, leafVars, pagerVars>>

NextNew == \E name \in TableNames, schema \in TableSchemas : New(name, schema)

SpecNew == InitNew /\ [][NextNew]_vars

-----------------------------------------------------------------------------
(* Claims about the table.                                                 *)

Fits(values, schema) == ~TooLong(values, schema)

\* C1: in the session that created the file, with n rows inserted (each
\* within its field's capacity), read(i) for i < n succeeds and prints the
\* values of the (i+1)-th successful insert.
C1_ReadReturnsInsertedRow ==
    ( /\ last.op = "read"
      /\ ~restarted
      /\ last.index < Len(hist)
      /\ \A i \in 1..Len(hist) : Fits(hist[i].values, table.header.schema) )
    => /\ last.res = "Ok"
       /\ last.out = hist[last.index + 1].values

\* C2: from an empty table, below the row limit the page insert asks the
\* Pager for is below TABLE_MAX_PAGE, and no insert of a well-formed
\* statement fails or panics.
C2_InsertBelowLimitSucceeds ==
    ~restarted =>
        /\ (pc = "open" /\ table.header.num_rows < max_rows(table))
              => InsertPageIndex(table) < TABLE_MAX_PAGE
        /\ (last.op = "insert" /\ last.res # "ParseError") => last.res = "Ok"

\* C3: an insert called with num_rows >= max_rows returns RowLimit and leaves
\* the Table (header, page count, cache) and the file as they were.
C3_RowLimitLeavesStateUnchanged ==
    [][ ( /\ pc = "open"
          /\ last'.op = "insert"
          /\ insert_statement_ok(last'.values, table.header.schema)
          /\ table.header.num_rows >= max_rows(table) )
        => /\ last'.res = "RowLimit"
           /\ table' = table
           /\ file' = file
           /\ pc' = "open" ]_vars

C3_Witness ==
    /\ last.op = "insert"
    /\ last.res = "RowLimit"
    /\ pc = "open"
    /\ table.header.num_rows >= max_rows(table)

\* C4: after a successful insert the header on disk and the header in
\* memory hold the same num_rows, the number of successful inserts into the
\* file; a Table constructed later starts with that number.
C4_HeaderCountsSuccessfulInserts ==
    ( pc = "open" /\ ( (last.op = "insert" /\ last.res = "Ok")
                       \/ last.op = "new" ) )
    => /\ Unwrap(file.hdr).num_rows = table.header.num_rows
       /\ table.header.num_rows = Len(hist)

\* C5: a row inserted before a restart keeps its bytes on disk, whatever is
\* inserted or read afterwards.
C5_RowsSurviveRestart ==
    \A i \in 1..Len(hist) :
        hist[i].old =>
            /\ hist[i].page < Len(file.pages)
            /\ RowBytes(file.pages[hist[i].page + 1], hist[i].index,
                        table.header.schema) = hist[i].bytes

\* C6: an insert that returns an I/O error leaves the file (contents and
\* length) and the in-memory num_rows as they were.
C6_InsertAllOrNothing ==
    [][ (pc = "open" /\ last'.op = "insert" /\ last'.res = "IOError")
        => /\ file' = file
           /\ table'.header.num_rows = table.header.num_rows ]_vars

\* C8: an insert with a string longer than its field's payload fails with
\* ParseError.
C8_OverlongStringRejected ==
    (last.op = "insert" /\ TooLong(last.values, table.header.schema))
    => last.res = "ParseError"

\* C7: a row written at a slot (its strings within their fields) is what
\* read_row of that slot returns, for every schema.
C7_CodecRoundTrip ==
    (cio # <<>> /\ cio.op = "read_row" /\ IsSome(cio.rows[cio.index]))
    => /\ ~cio.panic
       /\ cio.out = Unwrap(cio.rows[cio.index])

-----------------------------------------------------------------------------
(* Claims about the leaf.                                                  *)

InsertedKeys == {lkeys[i][1] : i \in 1..Len(lkeys)}

DistinctKeys == Cardinality(InsertedKeys) = Len(lkeys)

CellsAscending(bytes) ==
    \A i \in 0..(num_cells(bytes) - 2) :
        key(bytes, i, row_size(LeafSchema)) < key(bytes, i + 1, row_size(LeafSchema))

\* C9: after any sequence of leaf inserts with pairwise distinct keys, the
\* keys of cells 0 .. num_cells-1 of the leaf (and of the node a split
\* returned) are strictly ascending.
C9_LeafCellsSorted ==
    (leaf # <<>> /\ DistinctKeys)
    => /\ CellsAscending(leaf)
       /\ IsSome(lnew) => CellsAscending(Unwrap(lnew))

\* C10: on a leaf that distinct keys were inserted into without overflow,
\* binary_search returns Some(i) with key(i) the searched key for every
\* inserted key, and None for every other key.
C10_FindInsertedKeys ==
    (leaf # <<>> /\ llast.op = "find" /\ lnew = None /\ DistinctKeys)
    => IF llast.key \in InsertedKeys
       THEN /\ IsSome(llast.res)
            /\ key(leaf, Unwrap(llast.res), row_size(LeafSchema)) = llast.key
       ELSE llast.res = None

LeafMax == max_cells(row_size(LeafSchema))

\* C11: the first max_cells inserts into a new leaf return no new leaf and
\* raise num_cells by one each; insert number max_cells + 1 returns a new
\* leaf with (max_cells + 1) / 2 cells and leaves the original leaf with the
\* other (max_cells + 1) - (max_cells + 1) / 2.
C11_OneSplitAfterMaxCells ==
    (leaf # <<>> /\ ~llast.panic)
    => /\ Len(lkeys) <= LeafMax => (lnew = None /\ num_cells(leaf) = Len(lkeys))
       /\ Len(lkeys) > LeafMax =>
            /\ Len(lkeys) = LeafMax + 1
            /\ IsSome(lnew)
            /\ num_cells(Unwrap(lnew)) = (LeafMax + 1) \div 2
            /\ num_cells(leaf) = (LeafMax + 1) - (LeafMax + 1) \div 2
            /\ num_cells(leaf) + num_cells(Unwrap(lnew)) = LeafMax + 1

C11_Witness ==
    /\ llast.op = "insert" /\ IsSome(lnew) /\ Len(lkeys) = LeafMax + 1
    /\ num_cells(Unwrap(lnew)) = (LeafMax + 1) \div 2

\* the (key, row) cells of a leaf, in cell order
Cells(bytes) ==
    [i \in 1..num_cells(bytes) |-> leaf_read_row(bytes, i - 1, LeafSchema).row]

Count(seq, c) == Cardinality({i \in DOMAIN seq : seq[i] = c})

SameBag(a, b) ==
    /\ Len(a) = Len(b)
    /\ \A i \in DOMAIN a : Count(a, a[i]) = Count(b, a[i])

\* the entry the last insert was given
Inserted == lkeys[Len(lkeys)]

\* C14: a split keeps every entry once: the cells of the original leaf and of
\* the new leaf after it are, as a multiset, the max_cells cells the leaf
\* held before plus the inserted one.
C14_SplitKeepsEntries ==
    [][ (leaf # <<>> /\ lnew = None /\ IsSome(lnew'))
        => SameBag(Cells(leaf') \o Cells(Unwrap(lnew')),
                   Append(Cells(leaf), Inserted')) ]_vars

\* where leaf_node_split_and_insert puts the new cell
InsertionIndex(bytes, k) ==
    LET found == binary_search(bytes, k, row_size(LeafSchema))
    IN  IF IsSome(found) THEN Unwrap(found) ELSE 0

\* C15: an insert into a leaf that is not full, at insertion index k, leaves
\* cells 0..k-1 as they were, moves every cell j >= k to j+1 unchanged,
\* puts the new (key, row) at k, raises num_cells by one and leaves the
\* parent and next-leaf fields as they were.
C15_InsertShiftsRight ==
    [][ (leaf # <<>> /\ llast'.op = "insert" /\ num_cells(leaf) < LeafMax)
        => LET vs == row_size(LeafSchema)
               n  == num_cells(leaf)
               k  == InsertionIndex(leaf, llast'.key)
           IN  /\ ~llast'.panic /\ lnew' = None
               /\ \A j \in 0..(k - 1) : cell(leaf', j, vs) = cell(leaf, j, vs)
               /\ \A j \in k..(n - 1) : cell(leaf', j + 1, vs) = cell(leaf, j, vs)
               /\ leaf_read_row(leaf', k, LeafSchema).row = Inserted'
               /\ num_cells(leaf') = n + 1
               /\ parent(leaf') = parent(leaf)
               /\ next_leaf(leaf') = next_leaf(leaf) ]_vars

\* an insert in front of two cells moved them and kept the links
C15_Witness ==
    /\ llast.op = "insert" /\ lnew = None /\ num_cells(leaf) = 3
    /\ Cells(leaf)[1] = Inserted
    /\ parent(leaf) = 5

\* C16: the leaf a split returns has the parent and next-leaf pointers the
\* original leaf had before the split, and the original leaf keeps its own.
C16_SplitCopiesLinks ==
    [][ (leaf # <<>> /\ lnew = None /\ IsSome(lnew'))
        => /\ parent(Unwrap(lnew')) = parent(leaf)
           /\ next_leaf(Unwrap(lnew')) = next_leaf(leaf)
           /\ parent(leaf') = parent(leaf)
           /\ next_leaf(leaf') = next_leaf(leaf) ]_vars

C16_Witness ==
    IsSome(lnew) /\ parent(Unwrap(lnew)) = 5 /\ next_leaf(Unwrap(lnew)) = 7

KeyPresent(bytes, k) ==
    \E i \in 0..(num_cells(bytes) - 1) : key(bytes, i, row_size(LeafSchema)) = k

\* C17: inserting a key that a leaf which is not full holds already adds a
\* cell: num_cells grows by one, and the leaf then holds the cells it held
\* and the new one, each with its own row.
C17_DuplicateKeyAddsCell ==
    [][ ( /\ leaf # <<>> /\ llast'.op = "insert" /\ num_cells(leaf) < LeafMax
          /\ KeyPresent(leaf, llast'.key) )
        => /\ lnew' = None
           /\ num_cells(leaf') = num_cells(leaf) + 1
           /\ SameBag(Cells(leaf'), Append(Cells(leaf), Inserted')) ]_vars

\* the same key twice, with two different rows
C17_Witness ==
    /\ llast.op = "insert" /\ lnew = None /\ num_cells(leaf) >= 2
    /\ \E i, j \in 1..num_cells(leaf) :
          /\ i # j
          /\ Cells(leaf)[i][1] = Cells(leaf)[j][1]
          /\ Cells(leaf)[i][2] # Cells(leaf)[j][2]

\* C18: on a leaf whose keys are strictly ascending, binary_search returns
\* Some(i) with key(i) the key searched for when a cell holds it, and None
\* when none does; on an empty leaf it returns None.
C18_SearchOnSortedLeaf ==
    (leaf # <<>> /\ llast.op = "find" /\ CellsAscending(leaf))
    => IF KeyPresent(leaf, llast.key)
       THEN /\ IsSome(llast.res)
            /\ Unwrap(llast.res) < num_cells(leaf)
            /\ key(leaf, Unwrap(llast.res), row_size(LeafSchema)) = llast.key
       ELSE llast.res = None

\* a hit in a sorted leaf of three cells, left of the first probe
C18_Witness ==
    /\ llast.op = "find" /\ CellsAscending(leaf) /\ num_cells(leaf) = 3
    /\ llast.res = Some(0)

-----------------------------------------------------------------------------
(* Claims about the Pager.                                                 *)

\* C12: when pages 0..N-1 were each filled through page() and flushed, and
\* a new Pager of N pages is created over the file, page(i) of the new Pager
\* returns, for every i < N, the bytes that were flushed for i.
C12_PagerPersistence ==
    ( /\ plast # <<>> /\ plast.op = "page"
      /\ popen.reopened /\ popen.written /\ popen.clean
      /\ plast.index < popen.pages )
    => /\ plast.res = "Ok"
       /\ plast.out = pflushed[plast.index]

\* C19: once page(i) has returned a page, a later page(i), i below
\* TABLE_MAX_PAGE, of the same Pager returns that page as the earlier
\* references left it.
C19_CachedPageStaysResident ==
    [][ ( /\ PagerAlive /\ plast'.op = "page"
          /\ plast'.index < TABLE_MAX_PAGE
          /\ IsSome(pview[plast'.index]) )
        => /\ plast'.res = "Ok"
           /\ plast'.out = pview[plast'.index] ]_vars

\* C20: page(index) with index at or beyond the page count returns a zero
\* page cached at index, raises the page count by one, sets the file length
\* to HEADER_SPACE + 4096 * (new page count), does not shorten the file and
\* changes no other cached page.
C20_PageBeyondCountGrowsByOne ==
    [][ (PagerAlive /\ plast'.op = "page" /\ plast'.index >= pgr.pages)
        => /\ plast'.res = "Ok"
           /\ plast'.out = Some(PageNew)
           /\ pgr'.pages = pgr.pages + 1
           /\ FileLen(pfile') = HEADER_SPACE + PAGE_SIZE * pgr'.pages
           /\ FileLen(pfile') >= FileLen(pfile)
           /\ \A j \in 0..(TABLE_MAX_PAGE - 1) :
                 j # plast'.index => pgr'.cache[j] = pgr.cache[j] ]_vars

\* C22: flush_page(index) of a cached page writes that page's bytes, all of
\* them and nothing else, at the page's place in the file: the header
\* region and every other page of the file keep their bytes, and the file
\* ends where it ended or at the end of the written page.  Of a page that
\* is not cached it changes nothing in the file.  Neither case changes the
\* cache or the page count.
C22_FlushWritesOnePage ==
    [][ (PagerAlive /\ plast'.op = "flush_page")
        => LET i == plast'.index
           IN  /\ plast'.res = "Ok"
               /\ pgr' = pgr
               /\ IF IsSome(pgr.cache[i])
                  THEN /\ pfile'.hdr = pfile.hdr
                       /\ Len(pfile'.pages) =
                             (IF i + 1 > Len(pfile.pages) THEN i + 1
                                                          ELSE Len(pfile.pages))
                       /\ pfile'.pages[i + 1] = Unwrap(pgr.cache[i])
                       /\ \A j \in 1..Len(pfile.pages) :
                             j # i + 1 => pfile'.pages[j] = pfile.pages[j]
                  ELSE pfile' = pfile ]_vars

\* page 1 was flushed into a file that holds the flushed page 0 before it
C22_Witness ==
    /\ plast # <<>> /\ plast.op = "flush_page" /\ plast.index = 1
    /\ Len(pfile.pages) >= 2
    /\ pfile.pages[1] = Filled(FillOf(0))
    /\ pfile.pages[2] = Filled(FillOf(1))

-----------------------------------------------------------------------------
(* Claims about the internal page.                                         *)

\* the index a lookup resolves to: i for Left, i + 1 for Right
Resolved == IF ilast.pos = "Right" THEN ilast.index + 1 ELSE ilast.index

\* C25: with k = num_keys, children(i, Left) returns the child pointer of
\* cell i for i < k and the rightmost child for i = k; children(i, Right)
\* returns what children(i + 1, Left) returns; the lookup panics exactly
\* when the index it resolves to is greater than k.
C25_ChildrenRouting ==
    ilast.op = "children"
    => LET k == Len(imade.childs)
       IN  /\ num_keys(inode) = k
           /\ ilast.res.panic <=> Resolved > k
           /\ Resolved < k => ilast.res.value = imade.childs[Resolved + 1]
           /\ Resolved = k => ilast.res.value = imade.right
           /\ ilast.pos = "Right"
                => ilast.res = children(inode, ilast.index + 1, "Left")

\* the right neighbour of the last key of a full node is the rightmost child
C25_Witness ==
    /\ ilast.op = "children" /\ ilast.pos = "Right"
    /\ num_keys(inode) = NODE_MAX_CELLS
    /\ ilast.index = NODE_MAX_CELLS - 1
    /\ ilast.res = [panic |-> FALSE, value |-> imade.right]
    /\ imade.right \notin {imade.childs[i] : i \in 1..Len(imade.childs)}

-----------------------------------------------------------------------------
(* Claims about what the Table leaves alone.                               *)

\* C23: Table::new over a file that is not empty leaves the file as it is
\* and takes name, schema and num_rows from the header in the file, whatever
\* name and schema it was given; over an empty file it writes the header of
\* its arguments with num_rows 0 and nothing else.  Either way the header
\* of the Table is the header in the file afterwards.
C23_NewTrustsTheFile ==
    [][ (pc \in {"closed", "open"} /\ last'.op = "new")
        => /\ pc' = "open"
           /\ table'.header = Unwrap(file'.hdr)
           /\ IF FileLen(file) # 0
              THEN /\ file' = file
                   /\ table'.header = Unwrap(file.hdr)
              ELSE /\ file'.pages = <<>>
                   /\ table'.header = [name     |-> last'.values[1],
                                        schema   |-> last'.values[2],
                                        num_rows |-> 0] ]_vars

\* a table of stored rows was opened under another name and schema than
\* those in its file
C23_Witness ==
    /\ last.op = "new" /\ pc = "open" /\ ~restarted
    /\ table.header.num_rows > 0
    /\ last.values[1] # table.header.name
    /\ last.values[2] # table.header.schema

\* a cache that differs from `old` at most by pages loaded from the file
CacheOnlyLoaded(old, new, f) ==
    \A i \in 0..(TABLE_MAX_PAGE - 1) :
        \/ new[i] = old[i]
        \/ /\ old[i] = None /\ i < Len(f.pages)
           /\ new[i] = Some(f.pages[i + 1])

\* C21: Table::read creates no page: a read, of any index in any state of
\* the table, leaves the file (its length, pages and header), the pager's
\* page count and num_rows as they were, and changes the cache at most by
\* loading a page of the file.
C21_ReadCreatesNoPage ==
    [][ (pc = "open" /\ last'.op = "read")
        => /\ file' = file
           /\ table'.header = table.header
           /\ table'.pages.pages = table.pages.pages
           /\ CacheOnlyLoaded(table.pages.cache, table'.pages.cache, file) ]_vars

\* the rows the current session inserted, as positions in hist
ThisSession == {i \in 1..Len(hist) : ~hist[i].old}

\* C27: within one session, with every string within its field's capacity,
\* two different successful inserts store their rows at different
\* (page, slot) positions, and every row the session inserted still has,
\* in the cached page and in the file, the bytes its insert wrote.
C27_SessionRowsDoNotCollide ==
    (\A i \in ThisSession : Fits(hist[i].values, table.header.schema))
    => /\ \A i, j \in ThisSession :
             i # j => <<hist[i].page, hist[i].index>> # <<hist[j].page, hist[j].index>>
       /\ \A i \in ThisSession :
             /\ IsSome(table.pages.cache[hist[i].page])
             /\ RowBytes(Unwrap(table.pages.cache[hist[i].page]), hist[i].index,
                         table.header.schema) = hist[i].bytes
             /\ hist[i].page < Len(file.pages)
             /\ RowBytes(file.pages[hist[i].page + 1], hist[i].index,
                         table.header.schema) = hist[i].bytes

\* a session that began over a file with rows has inserted three rows, two
\* of them into one page, and has read since
C27_Witness ==
    /\ restarted /\ last.op = "read" /\ last.res = "Ok"
    /\ Cardinality(ThisSession) >= 3
    /\ Len(hist) > Cardinality(ThisSession)
    /\ \A i \in ThisSession : Fits(hist[i].values, table.header.schema)
    /\ \E i, j \in ThisSession : i # j /\ hist[i].page = hist[j].page

\* the common node header of a page: node type, is-root flag, parent
CommonHeader(bytes) == Slice(bytes, 0, COMMON_NODE_HEADER_SIZE)

\* C24: the pages the Table persists keep the common page header: after an
\* insert byte 0 of every page of the file is a node type (0 or 1), and the
\* insert has changed none of bytes 0..5 of any page (a page the file did
\* not hold before counts as the zero page it is created as).
C24_InsertKeepsPageHeader ==
    [][ (pc = "open" /\ last'.op = "insert" /\ last'.res = "Ok")
        => \A i \in 1..Len(file'.pages) :
              /\ file'.pages[i][NODE_TYPE_OFFSET + 1] \in {0, 1}
              /\ CommonHeader(file'.pages[i]) =
                    CommonHeader(IF i <= Len(file.pages) THEN file.pages[i]
                                                         ELSE PageNew) ]_vars

-----------------------------------------------------------------------------
(* Claims about the front end.                                             *)

\* the verb of a line: the text before its first space, or all of it
Verb(line) ==
    IF \E i \in 1..Len(line) : line[i] = " "
    THEN SubSeq(line, 1, (CHOOSE i \in 1..Len(line) :
                             /\ line[i] = " "
                             /\ \A j \in 1..(i - 1) : line[j] # " ") - 1)
    ELSE line

\* the argument part of a line: the text after its first space
Args(line) == SubSeq(line, Len(Verb(line)) + 2, Len(line))

\* C26: prepare_statement never aborts and types its errors: a line whose
\* verb is neither insert nor read gives UnrecognizedCommand, with or
\* without an argument part; a read whose index is not a run of digits
\* gives ParseError; an insert that is not accepted gives ParseError.
C26_TypedStatementErrors ==
    (last.op = "line" /\ ~(last.line # <<>> /\ last.line[1] = "."))
    => LET st == prepare_statement(last.line, table.header.schema)
       IN  /\ st.res # "panic"
           /\ Verb(last.line) \notin {InsertWord, ReadWord}
                => st.res = "UnrecognizedCommand"
           /\ (Verb(last.line) = ReadWord /\ ~ParsesAsUsize(Args(last.line)))
                => st.res = "ParseError"
           /\ (Verb(last.line) = InsertWord /\ st.res # "Ok")
                => st.res = "ParseError"

\* C13: a line that ends in UnrecognizedCommand, ParseError or RowLimit (or
\* any line but .exit) leaves the loop of main running; the process ends
\* only on .exit and at the end of the input.
C13_LoopSurvivesBadLine ==
    pc # "open" => (last.res = "exit" /\ pc = "exited")

=============================================================================
